---- MODULE Spec2Model ----
(***************************************************************************)
(* The round-bounded tool-calling engine of backend/ai_generator.py:       *)
(* AIGenerator.generate_response_with_rounds and the helpers it calls.     *)
(* One query is followed from the call to its return (or to the exception  *)
(* that leaves it).  The LLM and the tool dispatcher are external: every   *)
(* request and every dispatch draws its outcome from a small set.          *)
(***************************************************************************)
EXTENDS Integers, Sequences, FiniteSets, TLC

\* ---------------------------------------------------------------- bounds
\* largest max_rounds a query is started with (0 is included: the loop is
\* then never entered)
MaxRounds == 2
\* largest number of content blocks in one LLM response
MaxBlocks == 2
\* largest number of passages the retrieval provider returns for one search
MaxPassages == 2
\* largest number of register and execute calls made directly on one registry
MaxCalls == 5
\* largest number of queries the caller serves one after another
MaxQueries == 2
\* largest number of searches one of two concurrent queries executes
MaxSearches == 1

\* ------------------------------------------------------------- constants
\* the literal returned at ai_generator.py:161
ToolExecutionFailed == "Tool execution failed"
\* the prefix of the answer built at ai_generator.py:154
ErrorGeneratingResponse == "Error generating response: "
\* str(e) of the exception a failing LLM request raises
ApiErrorText == "API error"
\* the query text of messages[0]
Query == "query"
\* str(e) of the exception a failing execute_tool raises
ToolErrorText == "Tool failed"
\* answer before the call has returned
NoAnswer == "<no answer>"
\* the response a round that continues hands to the loop (line 174)
EmptyPlaceholder == ""
\* exception slot when nothing was raised
NoException == "<none>"

\* the tool definitions a caller may supply (the two tools of SYSTEM_PROMPT)
ToolDefinitions == <<"search_course_content", "get_course_outline">>
\* the name of the content-search tool
SearchToolName == "search_course_content"
\* a tool name the model makes up: no tool is registered under it
UnknownToolName == "no_such_tool"
\* the search tool's text when the provider matched nothing
\* (tests/test_course_search_tool.py:109)
NoRelevantContent == "No relevant content found"
\* the error text of a failing retrieval provider, returned verbatim
\* (tests/test_course_search_tool.py:116, 123)
ProviderErrorText == "Vector store connection failed"
\* the outline tool's text for a course it cannot find
OutlineNotFound == "No course found"
\* error field of a provider result without error
NoError == "<no error>"
\* str(e) of the failure of a dispatch to an unregistered name
UnknownToolText == "Unknown tool"
\* tools argument: None and [] are both falsy in Python and are both <<>> here
ToolsArgs == {<<>>, ToolDefinitions}
\* response.stop_reason
StopReasons == {"tool_use", "end_turn", "max_tokens"}

VARIABLES
    pc,            \* position of the query in the code
    max_rounds,    \* state.max_rounds
    tools,         \* state.tools
    tool_manager,  \* state.tool_manager is not None
    round_count,   \* state.round_count
    messages,      \* state.messages
    response,      \* response.content of the round being executed
    idx,           \* position of the for loop of _execute_tools_and_update_state
    tool_results,  \* its local tool_results
    answer,        \* the string returned to the caller
    exception,     \* the exception that left generate_response_with_rounds
    reason,        \* termination_reason of the round that ended the query
    events,        \* every LLM request and every dispatcher call, in order
    registry,      \* the ToolRegistry's entries, in registration order
    last_sources,  \* the ToolRegistry's citation list
    store,         \* what the retrieval provider holds while the query runs
    query_no,      \* number of the query being served (1 for the first)
    registered,    \* every tool passed to register, in order
    returned,      \* the citations the caller has read from the registry
    drained,       \* the citations were read and cleared after every earlier query
    inflight,      \* two queries served concurrently: where each is and what it holds
    heap,          \* the objects of the engine instance and of its calls, by reference
    calls,         \* two calls of one engine instance: position and ConversationState
    legacy         \* one call of _handle_tool_execution: position and locals

\* what lies outside one call of the engine
outside == <<registry, query_no, registered, returned, drained, inflight,
                   heap, calls, legacy>>

vars == <<pc, max_rounds, tools, tool_manager, round_count, messages, response,
          idx, tool_results, answer, exception, reason, events, registry,
          last_sources, store, query_no, registered, returned, drained, inflight,
                   heap, calls, legacy>>

\* ------------------------------------------------------------ LLM oracle
\* the n-th request's response text is distinct from every other's
ResponseText(n) == "response " \o ToString(n)
\* ids the provider gives tool-use blocks: unique per request and position
ToolUseId(n, i) == "toolu_" \o ToString(n) \o "_" \o ToString(i)

\* the text a tool renders from what the provider found for the tool-use block
\* with this id
ToolResultText(id) == "result of " \o id

\* content_block.input of the i-th block of the n-th response: what the model
\* asks the tool for, as a number
ToolInputAt(n, i) == 3 * (n - 1) + (i - 1)

\* the tool the i-th block of the n-th response names: search, outline, search
\* and a made-up name take turns, so that every name, a search after an outline
\* and two searches in one query occur
ToolNameAt(n, i) ==
    LET k == (2 * (n - 1) + (i - 1)) % 4
    IN IF k = 3 THEN UnknownToolName ELSE ToolDefinitions[(k % 2) + 1]

\* ------------------------------------------------- registry and its tools
\* a registry entry: the tool held under a name; impl tells apart the tools
\* that were registered under one name
Tool(name, impl) == [name |-> name, impl |-> impl]

\* the registry after startup: both tools registered once
\* (tests/test_rag_integration.py:56-59)
StartupRegistry == [i \in 1..Len(ToolDefinitions) |-> Tool(ToolDefinitions[i], 1)]

\* the names under which reg holds a tool
RegisteredNames(reg) == {reg[i].name : i \in 1..Len(reg)}

\* the metadata of the k-th passage the provider matches for the search with
\* this id made in query q: the course title, which here names the query and
\* the search, and the lesson number
\* (tests/test_course_search_tool.py:151-155)
Passage(q, id, k) ==
    [course_title |-> "query " \o ToString(q) \o " " \o id, lesson_number |-> k]

\* the links the provider has for the lessons of n matched passages: one for
\* every odd lesson, none for the others
\* (tests/test_course_search_tool.py:157, 177-181)
LessonLinks(n) ==
    [k \in {j \in 1..n : j % 2 = 1} |-> "http://link" \o ToString(k) \o ".com"]

\* Citation giving every passage the link of the first lesson
Citation_FirstLink(meta, links) ==
    [text |-> meta.course_title \o " - Lesson " \o ToString(meta.lesson_number),
     link |-> IF 1 \in DOMAIN links THEN links[1] ELSE "None"]

\* the citation of a matched passage: its "Course - Lesson N" label and the
\* provider's link for that lesson, None when it has none
\* (tests/test_course_search_tool.py:164-172, 186-189)
Citation(meta, links) ==
    [text |-> meta.course_title \o " - Lesson " \o ToString(meta.lesson_number),
     link |-> IF meta.lesson_number \in DOMAIN links THEN links[meta.lesson_number]
              ELSE "None"]

\* the states the retrieval provider may be in when a query starts
Stores == 0..(MaxPassages + 1)

\* what the provider's search reports in state st for the search the block asks
\* for: between 0 and MaxPassages matches, in its order, or an error; which of
\* them depends on the provider's state and on what is asked
ProviderResult(st, q, block) ==
    LET n == (st + block.input) % (MaxPassages + 2)
    IN IF n <= MaxPassages
       THEN [documents |-> [k \in 1..n |-> "Content " \o ToString(k)],
             metadata |-> [k \in 1..n |-> Passage(q, block.id, k)],
             lesson_links |-> LessonLinks(n), error |-> NoError]
       ELSE [documents |-> <<>>, metadata |-> <<>>, lesson_links |-> LessonLinks(0),
             error |-> ProviderErrorText]

\* whether the provider in state st knows the course the block asks for
CourseFound(st, block) == (st + block.input) % 2 = 1

\* SearchExecute looking at the documents before the error
SearchExecute_SentinelFirst(res, id) ==
    [text |-> IF res.documents = <<>> THEN NoRelevantContent
              ELSE IF res.error # NoError THEN res.error
              ELSE ToolResultText(id),
     search |-> TRUE,
     sources |-> [k \in 1..Len(res.documents) |->
                    Citation(res.metadata[k], res.lesson_links)]]

\* SearchExecute joining the formatted passages, of which there are none when
\* nothing matched
SearchExecute_EmptyText(res, id) ==
    [text |-> IF res.error # NoError THEN res.error
              ELSE IF res.documents = <<>> THEN ""
              ELSE ToolResultText(id),
     search |-> TRUE,
     sources |-> [k \in 1..Len(res.documents) |->
                    Citation(res.metadata[k], res.lesson_links)]]

\* the content-search tool on a provider result: its text, and the citation
\* list it overwrites the registry's with, one citation per matched passage
SearchExecute(res, id) ==
    [text |-> IF res.error # NoError THEN res.error
              ELSE IF res.documents = <<>> THEN NoRelevantContent
              ELSE ToolResultText(id),
     search |-> TRUE,
     sources |-> [k \in 1..Len(res.documents) |->
                    Citation(res.metadata[k], res.lesson_links)]]

\* the outline tool: the rendered outline, or a "not found" message; it leaves
\* the citation list alone
OutlineExecute(found, id) ==
    [text |-> IF found THEN ToolResultText(id) ELSE OutlineNotFound,
     search |-> FALSE,
     sources |-> <<>>]

\* what execute returns for a tool_use block naming a registered tool
ToolOutcome(st, q, block) ==
    IF block.name = SearchToolName
    THEN SearchExecute(ProviderResult(st, q, block), block.id)
    ELSE OutlineExecute(CourseFound(st, block), block.id)

\* the two queries served concurrently
Queries == {1, 2}
\* the other one of the two
Other(q) == 3 - q

\* neither of the two has started
NoneInFlight ==
    [q \in Queries |-> [pc |-> "idle", searches |-> 0, own |-> <<>>, got |-> <<>>,
                        overlapped |-> FALSE]]

\* a reference to the object `what` of call q; call 0 is the engine instance
Ref(q, what) == ToString(q) \o "." \o what

\* self.base_params (line 66)
EngineParams == Ref(0, "base_params")

\* the dictionary built at lines 66-70
BaseParams == [model |-> "model", temperature |-> "0", max_tokens |-> "800"]

\* the objects that exist once the engine is constructed
EngineHeap == [o \in {EngineParams} |-> BaseParams]

\* neither call has been made
NoCalls ==
    [q \in Queries |-> [pc |-> "idle", round_count |-> 0, messages |-> "None",
                        base_params |-> "None", answer |-> NoAnswer,
                        history |-> "None"]]

\* the list the caller of _handle_tool_execution passes as
\* base_params["messages"], and the list the helper works on
CallerMessages == "caller.messages"
HelperMessages == "helper.messages"

\* _handle_tool_execution has not been called
NotCalled ==
    [pc |-> "idle", messages |-> "None", idx |-> 0, tool_results |-> <<>>,
     dispatched |-> <<>>, requests |-> <<>>, answer |-> NoAnswer,
     exception |-> NoException]

\* AIGenerator.SYSTEM_PROMPT (lines 20-59)
SystemPrompt == " You are an AI assistant specialized in course materials"

\* the conversation_history arguments: None, the empty string, a text
Histories == {"None", "", "User: hello"}

\* SystemContent appending the section whenever a history is passed, empty or
\* not
SystemContent_UnlessNone(history) ==
    IF history # "None"
    THEN SystemPrompt \o "\n\nPrevious conversation:\n" \o history
    ELSE SystemPrompt

\* system_content (lines 92-96): `if conversation_history` is false for None
\* and for the empty string
SystemContent(history) ==
    IF history \notin {"None", ""}
    THEN SystemPrompt \o "\n\nPrevious conversation:\n" \o history
    ELSE SystemPrompt

\* dictionary d with key k set to v
DictSet(d, k, v) == [x \in DOMAIN d \cup {k} |-> IF x = k THEN v ELSE d[x]]

\* heap h after object ref has been given the value val
Write(h, ref, val) == [o \in DOMAIN h \cup {ref} |-> IF o = ref THEN val ELSE h[o]]

\* Spread yielding the source dictionary itself instead of a copy
Spread_Alias(src, fresh) == src

\* the object a dictionary display {**src, ...} evaluates to: a new dictionary
\* (lines 106-109, 140-143, 167-170)
Spread(src, fresh) == fresh

\* the messages of a call's log: the query (line 100), the assistant's tool-use
\* response of round r (line 191) and the tool results of round r (line 220)
UserMessage(q) == [role |-> "user", kind |-> "query", query |-> q, round |-> 0]
AssistantMessage(q, r) == [role |-> "assistant", kind |-> "tool_use", query |-> q, round |-> r]
ToolResultsMessage(q, r) == [role |-> "user", kind |-> "tool_result", query |-> q, round |-> r]

\* SourcesAfter with the search tool adding its citations to the list
SourcesAfter_Accumulates(current, o) ==
    IF o.search THEN current \o o.sources ELSE current

\* the registry's citation list after a tool has returned o: overwritten by
\* the search tool, left alone by any other
SourcesAfter(current, o) == IF o.search THEN o.sources ELSE current

\* Register keeping the tool already held under the name
Register_KeepsFirst(reg, tool) ==
    IF tool.name \in RegisteredNames(reg) THEN reg ELSE Append(reg, tool)

\* register(tool): the tool is held under its name, in place of a tool already
\* held under that name (last write wins), else after the others
Register(reg, tool) ==
    IF tool.name \in RegisteredNames(reg)
    THEN [i \in 1..Len(reg) |-> IF reg[i].name = tool.name THEN tool ELSE reg[i]]
    ELSE Append(reg, tool)

BlockKinds == {"text", "tool_use"}

RECURSIVE SeqsUpTo(_, _)
SeqsUpTo(S, n) ==
    IF n = 0 THEN {<<>>}
    ELSE LET shorter == SeqsUpTo(S, n - 1)
         IN shorter \cup {Append(s, x) : s \in {t \in shorter : Len(t) = n - 1}, x \in S}

\* the shapes a response's content may have: block kinds in order
ContentShapes == SeqsUpTo(BlockKinds, MaxBlocks)

\* the content blocks of the n-th request's response, of a given shape
Content(n, shape) ==
    [i \in 1..Len(shape) |->
        IF shape[i] = "text"
        THEN [type |-> "text", text |-> ResponseText(n)]
        ELSE [type |-> "tool_use", id |-> ToolUseId(n, i), name |-> ToolNameAt(n, i),
              input |-> ToolInputAt(n, i)]]

\* number of LLM requests made so far
LLMCalls == Len(SelectSeq(events, LAMBDA e : e.kind = "llm"))
\* number of dispatcher invocations so far
ToolCalls == Len(SelectSeq(events, LAMBDA e : e.kind = "tool"))

\* ---------------------------------------------------------------- engine
\* `if state.tools and state.tool_manager` (line 146)
ToolsAvailable(t, tm) == Len(t) > 0 /\ tm

\* WantsTools testing `response.stop_reason != "end_turn"` instead
WantsTools_NotEndTurn(stop, tm) == stop # "end_turn" /\ tm

\* WantsTools looking at the stop reason only
WantsTools_WithoutDispatcher(stop, tm) == stop = "tool_use"

\* `if response.stop_reason == "tool_use" and state.tool_manager` (line 157)
WantsTools(stop, tm) == stop = "tool_use" /\ tm

\* the keyword arguments of client.messages.create for a round (lines 140-148)
RoundParams(msgs, t, tm) ==
    IF ToolsAvailable(t, tm)
    THEN [messages |-> msgs, tools |-> t, tool_choice |-> "auto"]
    ELSE [messages |-> msgs, tools |-> <<>>, tool_choice |-> "absent"]

\* FinalParams built like a round's, tools included
FinalParams_WithTools(msgs) ==
    IF Len(tools) > 0 /\ tool_manager
    THEN [messages |-> msgs, tools |-> tools, tool_choice |-> "auto"]
    ELSE [messages |-> msgs, tools |-> <<>>, tool_choice |-> "absent"]

\* the keyword arguments of the final request (lines 122-125, 167-170)
FinalParams(msgs) ==
    [messages |-> msgs, tools |-> <<>>, tool_choice |-> "absent"]

\* ShouldContinueRounds comparing with max_rounds instead of max_rounds - 1
ShouldContinueRounds_OneMore(rc, mr, t, tm) ==
    IF rc >= mr THEN [continue |-> FALSE, reason |-> "max_rounds_reached"]
    ELSE IF ~(Len(t) > 0) \/ ~tm
         THEN [continue |-> FALSE, reason |-> "no_tools_available"]
         ELSE [continue |-> TRUE, reason |-> "None"]

\* ShouldContinueRounds without the test of tools and dispatcher
ShouldContinueRounds_RoundsOnly(rc, mr, t, tm) ==
    IF rc >= mr - 1 THEN [continue |-> FALSE, reason |-> "max_rounds_reached"]
    ELSE [continue |-> TRUE, reason |-> "None"]

\* _should_continue_rounds (lines 224-243)
ShouldContinueRounds(rc, mr, t, tm) ==
    IF rc >= mr - 1 THEN [continue |-> FALSE, reason |-> "max_rounds_reached"]
    ELSE IF ~(Len(t) > 0) \/ ~tm
         THEN [continue |-> FALSE, reason |-> "no_tools_available"]
         ELSE [continue |-> TRUE, reason |-> "None"]

\* FirstText reading the last block, content[-1].text
FirstText_LastBlock(content) ==
    IF Len(content) = 0 THEN [ok |-> FALSE, value |-> "IndexError"]
    ELSE IF content[Len(content)].type # "text"
         THEN [ok |-> FALSE, value |-> "AttributeError"]
         ELSE [ok |-> TRUE, value |-> content[Len(content)].text]

\* response.content[0].text: IndexError on an empty content, AttributeError
\* on a first block that is no text block
FirstText(content) ==
    IF Len(content) = 0 THEN [ok |-> FALSE, value |-> "IndexError"]
    ELSE IF content[1].type # "text" THEN [ok |-> FALSE, value |-> "AttributeError"]
    ELSE [ok |-> TRUE, value |-> content[1].text]

\* NextToolUse with the loop starting at the second block, content[1:]
NextToolUse_FromSecond(content, i) ==
    LET rest == {j \in i..Len(content) : j >= 2 /\ content[j].type = "tool_use"}
    IN IF rest = {} THEN Len(content) + 1
       ELSE CHOOSE j \in rest : \A k \in rest : j <= k

\* NextToolUse with a `break` after the first tool_use block
NextToolUse_FirstOnly(content, i) ==
    LET rest == {j \in 1..Len(content) : content[j].type = "tool_use"}
    IN IF i > 1 \/ rest = {} THEN Len(content) + 1
       ELSE CHOOSE j \in rest : \A k \in rest : j <= k

\* the first index >= i of a tool_use block of content, Len(content) + 1 if none:
\* the for loop of lines 195-196 skips every other block
NextToolUse(content, i) ==
    LET rest == {j \in i..Len(content) : content[j].type = "tool_use"}
    IN IF rest = {} THEN Len(content) + 1
       ELSE CHOOSE j \in rest : \A k \in rest : j <= k

\* the ids of the tool_use blocks of content, in order
ToolUseIds(content) ==
    LET uses == SelectSeq(content, LAMBDA b : b.type = "tool_use")
    IN [i \in 1..Len(uses) |-> uses[i].id]

\* one LLM request as recorded in events: where it was made, what it carried,
\* whether it returned, and the response's stop reason, the type of its first
\* content block and the ids of its tool_use blocks
LLMEvent(site, params, ok, stop, content) ==
    [kind |-> "llm", site |-> site, params |-> params, ok |-> ok,
     stop_reason |-> stop, tool_use_ids |-> ToolUseIds(content),
     first_type |-> IF Len(content) = 0 THEN "none" ELSE content[1].type,
     round |-> round_count]

\* one dispatcher invocation as recorded in events: the block dispatched,
\* whether execute_tool returned, the text it returned (or str(e)), whether the
\* search tool ran and the citations it then wrote
ToolEvent(block, ok, text, search, sources) ==
    [kind |-> "tool", id |-> block.id, name |-> block.name, ok |-> ok,
     round |-> round_count, text |-> text, search |-> search, sources |-> sources,
     input |-> block.input, store |-> store]

\* the query returns text
Return(text, why) ==
    /\ pc' = "done"
    /\ answer' = text
    /\ reason' = why
    /\ exception' = NoException

\* an exception leaves generate_response_with_rounds
Raise(e) ==
    /\ pc' = "raised"
    /\ exception' = e
    /\ UNCHANGED <<answer, reason>>

\* `return final_response.content[0].text` / `return response.content[0].text`
ReturnFirstText(content, why) ==
    LET t == FirstText(content)
    IN IF t.ok THEN Return(t.value, why) ELSE Raise(t.value)

EngineInit ==
    /\ pc = "idle"
    /\ max_rounds = 0
    /\ tools = <<>>
    /\ tool_manager = FALSE
    /\ round_count = 0
    /\ messages = <<>>
    /\ response = <<>>
    /\ idx = 0
    /\ tool_results = <<>>
    /\ answer = NoAnswer
    /\ exception = NoException
    /\ reason = "None"
    /\ events = <<>>

\* no query has been served; the registry holds the tools registered at startup
Init ==
    /\ EngineInit
    /\ registry = StartupRegistry
    /\ registered = StartupRegistry
    /\ last_sources = <<>>
    /\ store = 0
    /\ query_no = 1
    /\ returned = <<>>
    /\ drained = TRUE
    /\ inflight = NoneInFlight
    /\ heap = EngineHeap
    /\ calls = NoCalls
    /\ legacy = NotCalled

\* generate_response_with_rounds up to the first test of the while loop
\* (lines 91-113); the retrieval provider is in some state when the query comes
GenerateResponseWithRounds ==
    /\ pc = "idle"
    /\ \E mr \in (-1)..MaxRounds, t \in ToolsArgs, tm \in BOOLEAN :
        /\ max_rounds' = mr
        /\ tools' = t
        /\ tool_manager' = tm
        /\ pc' = IF 0 < mr THEN "round" ELSE "fallback"
    /\ \E st \in Stores : store' = st
    /\ round_count' = 0
    /\ messages' = <<[role |-> "user", content |-> Query]>>
    /\ UNCHANGED <<response, idx, tool_results, answer, exception, reason, events,
                   last_sources, outside>>

\* GenerateResponse passing on a round limit of one
GenerateResponse_SingleRound ==
    /\ pc = "idle"
    /\ \E t \in ToolsArgs, tm \in BOOLEAN :
        /\ tools' = t
        /\ tool_manager' = tm
    /\ max_rounds' = 1
    /\ pc' = "round"
    /\ \E st \in Stores : store' = st
    /\ round_count' = 0
    /\ messages' = <<[role |-> "user", content |-> Query]>>
    /\ UNCHANGED <<response, idx, tool_results, answer, exception, reason, events,
                   last_sources, outside>>

\* generate_response: the query, the tools and the dispatcher are passed on to
\* generate_response_with_rounds with max_rounds=2 (lines 262-269), which runs
\* up to the first test of the while loop (lines 91-113)
GenerateResponse ==
    /\ pc = "idle"
    /\ \E t \in ToolsArgs, tm \in BOOLEAN :
        /\ tools' = t
        /\ tool_manager' = tm
    /\ max_rounds' = 2
    /\ pc' = "round"
    /\ \E st \in Stores : store' = st
    /\ round_count' = 0
    /\ messages' = <<[role |-> "user", content |-> Query]>>
    /\ UNCHANGED <<response, idx, tool_results, answer, exception, reason, events,
                   last_sources, outside>>

\* ToolsDone without `state.round_count += 1` (line 119)
ToolsDone_NoIncrement(log, results) ==
    LET msgs == IF Len(results) > 0
                THEN Append(log, [role |-> "user", content |-> results])
                ELSE log
        sc == ShouldContinueRounds(round_count, max_rounds, tools, tool_manager)
    IN /\ messages' = msgs
       /\ tool_results' = results
       /\ IF ~sc.continue
          THEN /\ pc' = "final"
               /\ reason' = sc.reason
          ELSE /\ pc' = IF round_count < max_rounds THEN "round" ELSE "fallback"
               /\ UNCHANGED reason
       /\ UNCHANGED <<round_count, answer, exception>>

\* ToolsDone with the loop returning the round's response without testing
\* should_continue (lines 116-117)
ToolsDone_ReturnsPlaceholder(log, results) ==
    LET msgs == IF Len(results) > 0
                THEN Append(log, [role |-> "user", content |-> results])
                ELSE log
        sc == ShouldContinueRounds(round_count, max_rounds, tools, tool_manager)
    IN /\ messages' = msgs
       /\ tool_results' = results
       /\ IF ~sc.continue
          THEN /\ pc' = "final"
               /\ reason' = sc.reason
               /\ UNCHANGED <<round_count, answer, exception>>
          ELSE /\ Return(EmptyPlaceholder, "None")
               /\ UNCHANGED round_count

\* ToolsDone putting the tool results in the place of the assistant message
ToolsDone_ReplacesLast(log, results) ==
    LET msgs == IF Len(results) > 0
                THEN Append(SubSeq(log, 1, Len(log) - 1),
                            [role |-> "user", content |-> results])
                ELSE log
        sc == ShouldContinueRounds(round_count, max_rounds, tools, tool_manager)
    IN /\ messages' = msgs
       /\ tool_results' = results
       /\ IF ~sc.continue
          THEN /\ pc' = "final"
               /\ reason' = sc.reason
               /\ UNCHANGED round_count
          ELSE /\ round_count' = round_count + 1
               /\ pc' = IF round_count + 1 < max_rounds THEN "round" ELSE "fallback"
               /\ UNCHANGED reason
       /\ UNCHANGED <<answer, exception>>

\* ToolsDone counting the round also when it is followed by the final request
ToolsDone_CountsLastRound(log, results) ==
    LET msgs == IF Len(results) > 0
                THEN Append(log, [role |-> "user", content |-> results])
                ELSE log
        sc == ShouldContinueRounds(round_count, max_rounds, tools, tool_manager)
    IN /\ messages' = msgs
       /\ tool_results' = results
       /\ IF ~sc.continue
          THEN /\ pc' = "final"
               /\ reason' = sc.reason
               /\ round_count' = round_count + 1
          ELSE /\ round_count' = round_count + 1
               /\ pc' = IF round_count + 1 < max_rounds THEN "round" ELSE "fallback"
               /\ UNCHANGED reason
       /\ UNCHANGED <<answer, exception>>

\* the end of _execute_tools_and_update_state once the for loop has run out
\* (lines 218-222) and what _execute_single_round and the while loop do with
\* its True (lines 163-174, 116-119, 113)
ToolsDone(log, results) ==
    LET msgs == IF Len(results) > 0
                THEN Append(log, [role |-> "user", content |-> results])
                ELSE log
        sc == ShouldContinueRounds(round_count, max_rounds, tools, tool_manager)
    IN /\ messages' = msgs
       /\ tool_results' = results
       /\ IF ~sc.continue
          THEN /\ pc' = "final"
               /\ reason' = sc.reason
               /\ UNCHANGED round_count
          ELSE /\ round_count' = round_count + 1
               /\ pc' = IF round_count + 1 < max_rounds THEN "round" ELSE "fallback"
               /\ UNCHANGED reason
       /\ UNCHANGED <<answer, exception>>

\* RoundRequestFailed retrying the request instead of returning
RoundRequestFailed_Retry(params) ==
    /\ events' = Append(events, LLMEvent("round", params, FALSE, "None", <<>>))
    /\ UNCHANGED <<pc, answer, exception, reason, messages, response, idx,
                   tool_results, round_count>>

\* the round's request raises: `except Exception as e: return f"Error
\* generating response: {str(e)}", False, "api_error"` (lines 153-154, 116-117)
RoundRequestFailed(params) ==
    /\ events' = Append(events, LLMEvent("round", params, FALSE, "None", <<>>))
    /\ Return(ErrorGeneratingResponse \o ApiErrorText, "api_error")
    /\ UNCHANGED <<messages, response, idx, tool_results, round_count>>

\* the round's request returns a response (lines 156-161, 176-177, 190-196)
RoundResponse(params, stop, content) ==
    /\ events' = Append(events, LLMEvent("round", params, TRUE, stop, content))
    /\ IF WantsTools(stop, tool_manager)
       THEN LET first == NextToolUse(content, 1)
                log == Append(messages, [role |-> "assistant", content |-> content])
            IN /\ response' = content
               /\ idx' = first
               /\ IF first <= Len(content)
                  THEN /\ messages' = log
                       /\ tool_results' = <<>>
                       /\ pc' = "tools"
                       /\ UNCHANGED <<round_count, answer, exception, reason>>
                  ELSE \* no tool_use block: the loop body never runs
                       ToolsDone(log, <<>>)
       ELSE /\ ReturnFirstText(content, "no_tool_use")
            /\ UNCHANGED <<messages, response, idx, tool_results, round_count>>

\* _execute_single_round from the request to the first dispatch
\* (lines 139-161, 190-196)
ExecuteSingleRound ==
    /\ pc = "round"
    /\ LET params == RoundParams(messages, tools, tool_manager)
           n == LLMCalls + 1
       IN \/ RoundRequestFailed(params)
          \/ \E stop \in StopReasons, shape \in ContentShapes :
                RoundResponse(params, stop, Content(n, shape))
    /\ UNCHANGED <<max_rounds, tools, tool_manager, last_sources, store, outside>>

\* the for loop after a pass that appended to tool_results: on to the next
\* tool_use block, or out of the loop (lines 195-196, 218-222)
NextPass(results) ==
    LET next == NextToolUse(response, idx + 1)
    IN /\ idx' = next
       /\ IF next <= Len(response)
          THEN /\ tool_results' = results
               /\ UNCHANGED <<pc, messages, round_count, answer, exception, reason>>
          ELSE ToolsDone(messages, results)

\* str(e) of the exception execute_tool raises for this block: the registry's
\* for a name it holds no tool under, else the tool's
DispatchErrorText(block) ==
    IF block.name \in RegisteredNames(registry) THEN ToolErrorText ELSE UnknownToolText

\* the error result block built at lines 210-215
ErrorResult(block) ==
    [type |-> "tool_result", tool_use_id |-> block.id,
     content |-> ToolExecutionFailed \o ": " \o DispatchErrorText(block),
     is_error |-> TRUE]

\* ToolRaised doing what the comment of line 209 says, "Add error result but
\* continue", without the `return False`
ToolRaised_Continue(block) ==
    /\ events' = Append(events, ToolEvent(block, FALSE, DispatchErrorText(block),
                                          FALSE, <<>>))
    /\ NextPass(Append(tool_results, ErrorResult(block)))
    /\ UNCHANGED last_sources

\* execute_tool raises: the error result goes to the local tool_results, which
\* is dropped by `return False`, and the round returns "Tool execution failed"
\* (lines 208-216, 160-161, 116-117)
ToolRaised(block) ==
    /\ events' = Append(events, ToolEvent(block, FALSE, DispatchErrorText(block),
                                          FALSE, <<>>))
    /\ tool_results' = Append(tool_results, ErrorResult(block))
    /\ Return(ToolExecutionFailed, "tool_error")
    /\ UNCHANGED <<messages, idx, round_count, last_sources>>

\* ToolResult filed under the tool's name instead of the block's id
ToolResult_UnderName(block, text) ==
    [type |-> "tool_result", tool_use_id |-> block.name, content |-> text]

\* the tool_result block built from the text execute_tool returned
\* (lines 203-207)
ToolResult(block, text) ==
    [type |-> "tool_result", tool_use_id |-> block.id, content |-> text]

\* ToolReturned taking a returned text that describes a failure for a failure
\* of the dispatch
ToolReturned_FailsOnErrorText(block) ==
    /\ block.name \in RegisteredNames(registry)
    /\ LET o == ToolOutcome(store, query_no, block)
       IN /\ events' = Append(events, ToolEvent(block, TRUE, o.text, o.search, o.sources))
          /\ last_sources' = SourcesAfter(last_sources, o)
          /\ IF o.text \in {NoRelevantContent, ProviderErrorText, OutlineNotFound}
             THEN /\ tool_results' = tool_results
                  /\ Return(ToolExecutionFailed, "tool_error")
                  /\ UNCHANGED <<messages, idx, round_count>>
             ELSE NextPass(Append(tool_results, ToolResult(block, o.text)))

\* ToolReturned with a registry that answers an unknown name with a text
\* instead of failing
ToolReturned_UnknownNameToo(block) ==
    LET o == IF block.name \in RegisteredNames(registry)
             THEN ToolOutcome(store, query_no, block)
             ELSE [text |-> UnknownToolText, search |-> FALSE, sources |-> <<>>]
    IN /\ events' = Append(events, ToolEvent(block, TRUE, o.text, o.search, o.sources))
       /\ last_sources' = SourcesAfter(last_sources, o)
       /\ NextPass(Append(tool_results, ToolResult(block, o.text)))

\* execute_tool returns text: the registry holds a tool under the block's name
\* and the tool returned; the search tool has overwritten the citation list
\* (lines 198-207)
ToolReturned(block) ==
    /\ block.name \in RegisteredNames(registry)
    /\ LET o == ToolOutcome(store, query_no, block)
       IN /\ events' = Append(events, ToolEvent(block, TRUE, o.text, o.search, o.sources))
          /\ last_sources' = SourcesAfter(last_sources, o)
          /\ NextPass(Append(tool_results, ToolResult(block, o.text)))

\* one pass of the for loop of _execute_tools_and_update_state on a tool_use
\* block (lines 195-216), then the loop up to the next tool_use block or its
\* end
ExecuteTool ==
    /\ pc = "tools"
    /\ \/ ToolRaised(response[idx])
       \/ ToolReturned(response[idx])
    /\ UNCHANGED <<max_rounds, tools, tool_manager, response, store, outside>>

\* the final request of _execute_single_round, outside any try (lines 166-172)
FinalCall ==
    /\ pc = "final"
    /\ LET params == FinalParams(messages)
           n == LLMCalls + 1
       IN \/ /\ events' = Append(events, LLMEvent("final", params, FALSE, "None", <<>>))
             /\ Raise("APIError")
          \/ \E stop \in StopReasons, shape \in ContentShapes :
               LET content == Content(n, shape)
               IN /\ events' = Append(events, LLMEvent("final", params, TRUE, stop, content))
                  /\ ReturnFirstText(content, reason)
    /\ UNCHANGED <<max_rounds, tools, tool_manager, round_count, messages, response,
                   idx, tool_results, last_sources, store, outside>>

\* the request after the while loop, outside any try (lines 121-127)
FallbackCall ==
    /\ pc = "fallback"
    /\ LET params == FinalParams(messages)
           n == LLMCalls + 1
       IN \/ /\ events' = Append(events, LLMEvent("fallback", params, FALSE, "None", <<>>))
             /\ Raise("APIError")
          \/ \E stop \in StopReasons, shape \in ContentShapes :
               LET content == Content(n, shape)
               IN /\ events' = Append(events, LLMEvent("fallback", params, TRUE, stop, content))
                  /\ ReturnFirstText(content, "None")
    /\ UNCHANGED <<max_rounds, tools, tool_manager, round_count, messages, response,
                   idx, tool_results, last_sources, store, outside>>

Next ==
    \/ GenerateResponseWithRounds
    \/ GenerateResponse
    \/ ExecuteSingleRound
    \/ ExecuteTool
    \/ FinalCall
    \/ FallbackCall

Spec == Init /\ [][Next]_vars

\* every request and every dispatch returns or fails in finite time, and the
\* synchronous engine then runs on
FairSpec == Init /\ [][Next]_vars /\ WF_vars(Next)

\* -------------------------------------------------- the registry by itself
\* a registry before startup: nothing registered, nothing executed
RegistryInit ==
    /\ EngineInit
    /\ registry = <<>>
    /\ registered = <<>>
    /\ last_sources = <<>>
    /\ store = 0
    /\ query_no = 1
    /\ returned = <<>>
    /\ drained = TRUE
    /\ inflight = NoneInFlight
    /\ heap = EngineHeap
    /\ calls = NoCalls
    /\ legacy = NotCalled

\* what the engine's variables are while no query runs
engine == <<pc, max_rounds, tools, tool_manager, round_count, messages, response,
            idx, tool_results, answer, exception, reason>>

\* register(tool) at startup, before the first execute: every call passes a
\* tool of its own, under one of the two names
RegisterTool ==
    /\ events = <<>>
    /\ Len(registered) + ToolCalls < MaxCalls
    /\ \E i \in 1..Len(ToolDefinitions) :
         LET tool == Tool(ToolDefinitions[i], Len(registered) + 1)
         IN /\ registry' = Register(registry, tool)
            /\ registered' = Append(registered, tool)
    /\ UNCHANGED <<engine, events, last_sources, store, query_no, returned, drained,
                   inflight,
                   heap, calls, legacy>>

\* execute(name, arguments) called on the registry: UnknownTool for a name it
\* holds no tool under, else the tool runs on what the provider holds by then
ExecuteOnRegistry ==
    /\ Len(registered) + ToolCalls < MaxCalls
    /\ \E name \in RegisteredNames(StartupRegistry) \cup {UnknownToolName} :
         LET block == [type |-> "tool_use", id |-> ToolUseId(query_no, ToolCalls + 1),
                       name |-> name, input |-> 0]
         IN IF name \in RegisteredNames(registry)
            THEN \E st \in Stores :
                 LET o == ToolOutcome(st, query_no, block)
                 IN /\ store' = st
                    /\ events' = Append(events,
                            [ToolEvent(block, TRUE, o.text, o.search, o.sources)
                                EXCEPT !.store = st])
                    /\ last_sources' = SourcesAfter(last_sources, o)
            ELSE /\ events' = Append(events,
                         ToolEvent(block, FALSE, UnknownToolText, FALSE, <<>>))
                 /\ UNCHANGED <<last_sources, store>>
    /\ UNCHANGED <<engine, registry, registered, query_no, returned, drained,
                   inflight,
                   heap, calls, legacy>>

\* clearCitations(): the caller resets the citation list
ResetSources ==
    /\ last_sources # <<>>
    /\ last_sources' = <<>>
    /\ events' = Append(events, [kind |-> "reset"])
    /\ UNCHANGED <<engine, registry, registered, store, query_no, returned, drained,
                   inflight,
                   heap, calls, legacy>>

RegistryNext ==
    \/ RegisterTool
    \/ ExecuteOnRegistry
    \/ ResetSources

RegistrySpec == RegistryInit /\ [][RegistryNext]_vars

\* ------------------------------------------ the caller, query after query
\* Definitions handing the tools out latest first
Definitions_LatestFirst(reg) == [i \in 1..Len(reg) |-> reg[Len(reg) + 1 - i].name]

\* the tool definitions the registry hands out, in registration order
Definitions(reg) == [i \in 1..Len(reg) |-> reg[i].name]

\* query(text): the caller starts a query, the first or the one after a query
\* that has returned or raised; it calls generate_response with the registry's
\* definitions and the registry, which delegates with max_rounds = 2
\* (lines 263-269, then lines 91-113)
RagQuery ==
    /\ \/ pc = "idle" /\ UNCHANGED <<query_no, drained>>
       \/ /\ pc \in {"returned", "raised"}
          /\ query_no < MaxQueries
          /\ query_no' = query_no + 1
          /\ drained' = (drained /\ pc = "returned")
    /\ max_rounds' = 2
    /\ tools' = Definitions(registry)
    /\ tool_manager' = TRUE
    /\ pc' = "round"
    /\ round_count' = 0
    /\ messages' = <<[role |-> "user", content |-> Query]>>
    /\ response' = <<>>
    /\ idx' = 0
    /\ tool_results' = <<>>
    /\ answer' = NoAnswer
    /\ exception' = NoException
    /\ reason' = "None"
    /\ events' = <<>>
    /\ returned' = <<>>
    /\ \E st \in Stores : store' = st
    /\ UNCHANGED <<registry, registered, last_sources, inflight,
                   heap, calls, legacy>>

\* QueryReturns without the call of reset_sources
QueryReturns_NoReset ==
    /\ pc = "done"
    /\ pc' = "returned"
    /\ returned' = last_sources
    /\ UNCHANGED <<max_rounds, tools, tool_manager, round_count, messages, response,
                   idx, tool_results, answer, exception, reason, events, registry,
                   store, query_no, registered, drained, last_sources, inflight,
                   heap, calls, legacy>>

\* generate_response has returned the answer: the caller reads the citations,
\* clears them and returns both (tests/test_rag_integration.py:200-205)
QueryReturns ==
    /\ pc = "done"
    /\ pc' = "returned"
    /\ returned' = last_sources
    /\ last_sources' = <<>>
    /\ UNCHANGED <<max_rounds, tools, tool_manager, round_count, messages, response,
                   idx, tool_results, answer, exception, reason, events, registry,
                   store, query_no, registered, drained, inflight,
                   heap, calls, legacy>>

\* an exception of generate_response leaves query too
\* (tests/test_rag_integration.py:207-224): nothing is read or cleared, and pc
\* stays "raised" until the next query
SystemNext ==
    \/ RagQuery
    \/ ExecuteSingleRound
    \/ ExecuteTool
    \/ FinalCall
    \/ QueryReturns

SystemSpec == Init /\ [][SystemNext]_vars

\* ------------------------------------- two queries on one shared registry
\* query q is between its start and the clearing of the citations
InFlight(q) == inflight[q].pc \in {"running", "read"}

\* what two concurrent queries leave alone
sequential == <<engine, events, registry, registered, store, query_no, returned,
                drained, heap, calls, legacy>>

\* query q starts while the other may be in flight
QueryStarts(q) ==
    /\ inflight[q].pc = "idle"
    /\ inflight' =
         [r \in Queries |->
            IF r = q
            THEN [inflight[q] EXCEPT !.pc = "running", !.overlapped = InFlight(Other(q))]
            ELSE [inflight[r] EXCEPT !.overlapped = @ \/ InFlight(r)]]
    /\ UNCHANGED <<sequential, last_sources>>

\* the engine serving query q dispatches a search: the search tool overwrites
\* the shared citation list
QuerySearches(q) ==
    /\ inflight[q].pc = "running"
    /\ inflight[q].searches < MaxSearches
    /\ \E st \in Stores :
         LET block == [type |-> "tool_use", id |-> ToolUseId(q, inflight[q].searches + 1),
                       name |-> SearchToolName, input |-> 0]
             o == ToolOutcome(st, q, block)
         IN /\ last_sources' = SourcesAfter(last_sources, o)
            /\ inflight' = [inflight EXCEPT ![q].searches = @ + 1,
                                            ![q].own = o.sources]
    /\ UNCHANGED sequential

\* the caller of query q reads the citation list
QueryReads(q) ==
    /\ inflight[q].pc = "running"
    /\ inflight' = [inflight EXCEPT ![q].pc = "read", ![q].got = last_sources]
    /\ UNCHANGED <<sequential, last_sources>>

\* QueryClears without resetting the list
QueryClears_Nothing(q) ==
    /\ inflight[q].pc = "read"
    /\ inflight' = [inflight EXCEPT ![q].pc = "done"]
    /\ UNCHANGED <<sequential, last_sources>>

\* the caller of query q clears the citation list
QueryClears(q) ==
    /\ inflight[q].pc = "read"
    /\ inflight' = [inflight EXCEPT ![q].pc = "done"]
    /\ last_sources' = <<>>
    /\ UNCHANGED sequential

ConcurrentNext ==
    \E q \in Queries :
        \/ QueryStarts(q)
        \/ QuerySearches(q)
        \/ QueryReads(q)
        \/ QueryClears(q)

ConcurrentSpec == Init /\ [][ConcurrentNext]_vars

\* ----------------------------------------- two calls of one engine instance
\* what two calls of the engine leave alone
uninvolved == <<engine, events, registry, registered, store, query_no, returned,
                drained, last_sources, inflight, legacy>>

\* call q ends with this answer
CallReturns(q, text) == [calls EXCEPT ![q].pc = "done", ![q].answer = text]

\* generate_response_with_rounds builds the ConversationState of call q
\* (lines 98-110)
CallStarts(q) ==
    /\ calls[q].pc = "idle"
    /\ \E history \in Histories :
         LET log == Ref(q, "messages")
             params == Spread(EngineParams, Ref(q, "base_params"))
             h == Write(heap, log, <<UserMessage(q)>>)
         IN /\ heap' = Write(h, params, DictSet(h[EngineParams], "system",
                                                SystemContent(history)))
            /\ calls' = [calls EXCEPT ![q] = [pc |-> "round", round_count |-> 0,
                                              messages |-> log, base_params |-> params,
                                              answer |-> NoAnswer, history |-> history]]
    /\ UNCHANGED uninvolved

\* one round request of call q and what its response leads to (lines 140-157,
\* 176-177, 191)
CallRequests(q) ==
    /\ calls[q].pc = "round"
    /\ calls[q].round_count < MaxRounds
    /\ LET api_params == Spread(calls[q].base_params, Ref(q, "api_params"))
           with_messages == DictSet(heap[calls[q].base_params], "messages", calls[q].messages)
           with_tools == DictSet(DictSet(with_messages, "tools", "tools"), "tool_choice", "auto")
           h == Write(heap, api_params, with_tools)
           log == calls[q].messages
       IN \/ /\ heap' = h
             /\ calls' = CallReturns(q, ErrorGeneratingResponse \o ApiErrorText)
          \/ /\ heap' = h
             /\ calls' = CallReturns(q, ResponseText(calls[q].round_count + 1))
          \/ /\ heap' = Write(h, log, Append(h[log],
                                 AssistantMessage(q, calls[q].round_count + 1)))
             /\ calls' = [calls EXCEPT ![q].pc = "tools"]
    /\ UNCHANGED uninvolved

\* the tool calls of the round of call q: a failure ends the call, otherwise
\* the results are appended and the rounds go on or end (lines 159-174,
\* 208-222, 119)
CallExecutesTools(q) ==
    /\ calls[q].pc = "tools"
    /\ LET log == calls[q].messages
       IN \/ /\ calls' = CallReturns(q, ToolExecutionFailed)
             /\ UNCHANGED heap
          \/ /\ heap' = Write(heap, log, Append(heap[log],
                                 ToolResultsMessage(q, calls[q].round_count + 1)))
             /\ calls' = IF calls[q].round_count >= MaxRounds - 1
                         THEN [calls EXCEPT ![q].pc = "final"]
                         ELSE [calls EXCEPT ![q].pc = "round", ![q].round_count = @ + 1]
    /\ UNCHANGED uninvolved

\* the final request of call q, without tools (lines 166-172)
CallFinal(q) ==
    /\ calls[q].pc = "final"
    /\ LET final_params == Spread(calls[q].base_params, Ref(q, "final_params"))
       IN heap' = Write(heap, final_params,
                        DictSet(heap[calls[q].base_params], "messages", calls[q].messages))
    /\ \/ calls' = CallReturns(q, ResponseText(MaxRounds + 1))
       \/ calls' = [calls EXCEPT ![q].pc = "raised"]
    /\ UNCHANGED uninvolved

SharedEngineNext ==
    \E q \in Queries :
        \/ CallStarts(q)
        \/ CallRequests(q)
        \/ CallExecutesTools(q)
        \/ CallFinal(q)

SharedEngineSpec == Init /\ [][SharedEngineNext]_vars

\* ------------------------------------------ the helper _handle_tool_execution
\* generate_response_with_rounds called with max_rounds = 1 and a dispatcher
SingleRoundQuery ==
    /\ GenerateResponseWithRounds
    /\ max_rounds' = 1
    /\ tool_manager'

\* ListCopy yielding the list itself
ListCopy_Alias(src, fresh) == src

\* the object `base_params["messages"].copy()` evaluates to: a new list
\* (line 284)
ListCopy(src, fresh) == fresh

\* the keyword arguments of the helper's request: self.base_params with
\* messages and system, no tools (lines 307-313)
HelperFinalParams(msgs) ==
    [messages |-> msgs, tools |-> <<>>, tool_choice |-> "absent"]

\* the helper's request as recorded: what it carried, whether it returned,
\* and the response's stop reason, the type of its first content block and
\* the ids of its tool_use blocks
HelperRequest(params, ok, stop, content) ==
    [params |-> params, ok |-> ok, stop_reason |-> stop,
     tool_use_ids |-> ToolUseIds(content),
     first_type |-> IF Len(content) = 0 THEN "none" ELSE content[1].type]

\* the helper's for loop has run out: the results, if any, are appended as
\* one user message (lines 304-305)
HelperLoopEnds(h, log, results) ==
    IF Len(results) > 0
    THEN Write(h, log, Append(h[log], [role |-> "user", content |-> results]))
    ELSE h

\* _handle_tool_execution from its call to the first tool_use block
\* (lines 283-292): it is given the response the round engine took as tool
\* use and base_params whose messages hold the query
HandleToolExecution ==
    /\ legacy.pc = "idle"
    /\ pc \in {"done", "raised"}
    /\ max_rounds = 1
    /\ events # <<>>
    /\ events[1].ok /\ WantsTools(events[1].stop_reason, tool_manager)
    /\ LET h0 == Write(heap, CallerMessages, <<[role |-> "user", content |-> Query]>>)
           log == ListCopy(CallerMessages, HelperMessages)
           h1 == Write(h0, log, Append(Write(h0, log, h0[CallerMessages])[log],
                                       [role |-> "assistant", content |-> response]))
           first == NextToolUse(response, 1)
       IN /\ heap' = IF first <= Len(response) THEN h1 ELSE HelperLoopEnds(h1, log, <<>>)
          /\ legacy' = [legacy EXCEPT !.pc = IF first <= Len(response) THEN "tools" ELSE "final",
                                      !.messages = log,
                                      !.idx = first]
    /\ UNCHANGED <<engine, events, registry, registered, store, query_no, returned,
                   drained, last_sources, inflight, calls>>

\* one dispatch of the helper: execute_tool raises, and nothing catches it, or
\* it returns text, which becomes a tool_result block (lines 292-302); then on
\* to the next tool_use block or out of the loop
HelperDispatch(block) ==
    \/ /\ legacy' = [legacy EXCEPT !.pc = "raised",
                                   !.exception = "ToolError",
                                   !.dispatched = Append(@, [id |-> block.id, name |-> block.name,
                                                             input |-> block.input, ok |-> FALSE])]
       /\ UNCHANGED <<heap, last_sources>>
    \/ /\ block.name \in RegisteredNames(registry)
       /\ LET o == ToolOutcome(store, query_no, block)
              results == Append(legacy.tool_results, ToolResult(block, o.text))
              next == NextToolUse(response, legacy.idx + 1)
          IN /\ last_sources' = SourcesAfter(last_sources, o)
             /\ legacy' = [legacy EXCEPT !.pc = IF next <= Len(response) THEN "tools" ELSE "final",
                                         !.idx = next,
                                         !.tool_results = results,
                                         !.dispatched = Append(@, [id |-> block.id, name |-> block.name,
                                                                   input |-> block.input, ok |-> TRUE])]
             /\ heap' = IF next <= Len(response) THEN heap
                        ELSE HelperLoopEnds(heap, legacy.messages, results)

\* one pass of the helper's for loop on a tool_use block (lines 291-302)
HandleToolExecutionTool ==
    /\ legacy.pc = "tools"
    /\ HelperDispatch(response[legacy.idx])
    /\ UNCHANGED <<engine, events, registry, registered, store, query_no, returned,
                   drained, inflight, calls>>

\* the helper's request and `return final_response.content[0].text`
\* (lines 307-317); the response is the second one of the conversation
HandleToolExecutionFinal ==
    /\ legacy.pc = "final"
    /\ LET params == HelperFinalParams(heap[legacy.messages])
       IN \/ legacy' = [legacy EXCEPT !.pc = "raised",
                                      !.exception = "APIError",
                                      !.requests = Append(@, HelperRequest(params, FALSE, "None", <<>>))]
          \/ \E stop \in StopReasons, shape \in ContentShapes :
               LET content == Content(2, shape)
                   t == FirstText(content)
                   request == HelperRequest(params, TRUE, stop, content)
               IN legacy' = [legacy EXCEPT !.pc = IF t.ok THEN "done" ELSE "raised",
                                           !.answer = IF t.ok THEN t.value ELSE @,
                                           !.exception = IF t.ok THEN @ ELSE t.value,
                                           !.requests = Append(@, request)]
    /\ UNCHANGED <<engine, events, registry, registered, store, query_no, returned,
                   drained, last_sources, inflight, heap, calls>>

LegacyNext ==
    \/ SingleRoundQuery
    \/ ExecuteSingleRound
    \/ ExecuteTool
    \/ FinalCall
    \/ HandleToolExecution
    \/ HandleToolExecutionTool
    \/ HandleToolExecutionFinal

LegacySpec == Init /\ [][LegacyNext]_vars

\* ---------------------------------------------------------------- claims
\* the call has returned or an exception has left it
Terminated == pc \in {"done", "raised"}

\* the LLM requests made so far, in order
LLMEvents == SelectSeq(events, LAMBDA e : e.kind = "llm")
\* the dispatcher invocations made so far, in order
ToolEvents == SelectSeq(events, LAMBDA e : e.kind = "tool")

\* C1: for max_rounds >= 1 a call never issues more than max_rounds + 1 LLM
\* requests, and once it has ended it has issued at least one.
C1_RequestBound ==
    (pc # "idle" /\ max_rounds >= 1) =>
        /\ LLMCalls <= max_rounds + 1
        /\ (Terminated => LLMCalls >= 1)

\* a query with max_rounds = MaxRounds has ended after max_rounds + 1 requests
C1_Witness ==
    /\ pc = "done"
    /\ max_rounds = MaxRounds
    /\ LLMCalls = max_rounds + 1

\* an exception raised by reading content[0].text of a response that has no
\* leading text block
MalformedResponse == exception \in {"IndexError", "AttributeError"}

\* C2: every query started with max_rounds >= 1 eventually ends with an
\* answer returned to the caller, whether its requests and tool calls return
\* or fail (queries that receive a response without a leading text block are
\* left aside, so that the property speaks of well-formed responses only).
C2_EventuallyAnswer ==
    (pc # "idle" /\ max_rounds >= 1) ~>
        ((pc = "done" /\ answer # NoAnswer) \/ MalformedResponse)

\* the part of C2 the code keeps: every query eventually ends, by a return or
\* by an exception; it never loops forever
C2_EventuallyEnds == (pc # "idle") ~> Terminated

\* some LLM request or some dispatch of the query has failed
SomethingFailed == \E i \in 1..Len(events) : ~events[i].ok

\* C3: a query in which an LLM request or a tool call failed still ends by
\* returning a string; no exception leaves generate_response_with_rounds.
C3_FailureReturnsString ==
    (max_rounds >= 1 /\ SomethingFailed) => (pc # "raised" /\ exception = NoException)

\* the first LLM request of the query returned a response without any tool_use
\* block
FirstResponseHasNoToolUse ==
    /\ Len(LLMEvents) >= 1
    /\ LLMEvents[1].ok
    /\ LLMEvents[1].tool_use_ids = <<>>

RoundEvents == SelectSeq(LLMEvents, LAMBDA e : e.site = "round")

\* the round request e was answered by a tool-use response while a dispatcher
\* was supplied
TriggersToolUse(e) == e.ok /\ e.stop_reason = "tool_use" /\ tool_manager

RECURSIVE Flatten(_)
Flatten(ss) == IF ss = <<>> THEN <<>> ELSE Head(ss) \o Flatten(Tail(ss))

\* the ids of the tool calls the rounds so far have requested, in order
RequestedIds ==
    Flatten([i \in 1..Len(RoundEvents) |->
                IF TriggersToolUse(RoundEvents[i])
                THEN RoundEvents[i].tool_use_ids ELSE <<>>])

\* the ids the dispatcher has been invoked for, in order
DispatchedIds == [i \in 1..Len(ToolEvents) |-> ToolEvents[i].id]

IsPrefix(s, t) == Len(s) <= Len(t) /\ SubSeq(t, 1, Len(s)) = s

\* every dispatch so far returned
AllToolsSucceeded == \A i \in 1..Len(ToolEvents) : ToolEvents[i].ok

\* all max_rounds rounds have been made and each triggered tool use
EveryRoundUsedTools ==
    /\ max_rounds >= 1
    /\ Len(RoundEvents) = max_rounds
    /\ \A i \in 1..Len(RoundEvents) : TriggersToolUse(RoundEvents[i])
    /\ AllToolsSucceeded

\* C5: when each of the max_rounds rounds triggers tool use and every tool
\* call succeeds, the dispatcher is invoked once for each requested tool call,
\* in order, and the query ends after exactly max_rounds + 1 LLM requests, the
\* last of them made without tool definitions; when that last response starts
\* with a text block, its text is the answer returned.
C5_EveryRoundToolUse ==
    EveryRoundUsedTools =>
        /\ IsPrefix(DispatchedIds, RequestedIds)
        /\ LLMCalls <= max_rounds + 1
        /\ Terminated =>
              /\ LLMCalls = max_rounds + 1
              /\ DispatchedIds = RequestedIds
              /\ events[Len(events)].kind = "llm"
              /\ events[Len(events)].site # "round"
              /\ events[Len(events)].params.tools = <<>>
              /\ events[Len(events)].params.tool_choice = "absent"
              /\ (events[Len(events)].ok /\ events[Len(events)].first_type = "text")
                    => (pc = "done" /\ answer = ResponseText(max_rounds + 1))

\* MaxRounds tool rounds, one of them with two tool calls, then the answer
C5_Witness ==
    /\ pc = "done"
    /\ max_rounds = MaxRounds
    /\ EveryRoundUsedTools
    /\ Len(DispatchedIds) > max_rounds
    /\ answer = ResponseText(MaxRounds + 1)

C7_RoundRequestFailureEndsQuery ==
    \A i \in 1..Len(events) :
        (events[i].kind = "llm" /\ events[i].site = "round" /\ ~events[i].ok) =>
            /\ i = Len(events)
            /\ pc = "done"
            /\ answer = "Error generating response: " \o ApiErrorText
            /\ messages = events[i].params.messages

\* the request of the second round has failed after a round of tool calls
C7_Witness ==
    /\ pc = "done"
    /\ LLMCalls = 2
    /\ ToolCalls >= 1
    /\ ~events[Len(events)].ok
    /\ events[Len(events)].kind = "llm"
    /\ events[Len(events)].site = "round"
    /\ Len(messages) = 3

\* the last thing the query did was a round request whose response did not
\* trigger tool use
AnsweredWithoutToolUse ==
    /\ Len(events) >= 1
    /\ events[Len(events)].kind = "llm"
    /\ events[Len(events)].site = "round"
    /\ events[Len(events)].ok
    /\ ~(events[Len(events)].stop_reason = "tool_use" /\ tool_manager)

\* C8: when the rounds before it (j = round_count of them, j < max_rounds)
\* requested tools with every call succeeding and round j + 1 is answered
\* without tool use, the query ends there: exactly j + 1 LLM requests, all of
\* them round requests (no final request without tools), one dispatch for each
\* requested tool call, in order, and, when the response starts with a text
\* block, that text as the answer.
C8_AnswerAfterToolRounds ==
    AnsweredWithoutToolUse =>
        /\ Terminated
        /\ round_count < max_rounds
        /\ LLMCalls = round_count + 1
        /\ Len(RoundEvents) = LLMCalls
        /\ \A i \in 1..(LLMCalls - 1) : TriggersToolUse(RoundEvents[i])
        /\ AllToolsSucceeded
        /\ DispatchedIds = RequestedIds
        /\ (events[Len(events)].first_type = "text")
              => (pc = "done" /\ answer = ResponseText(round_count + 1))

\* j = 1: a tool round with two tool calls, then the second round's response
\* is the answer
C8_Witness ==
    /\ pc = "done"
    /\ AnsweredWithoutToolUse
    /\ max_rounds = 2
    /\ round_count = 1
    /\ LLMCalls = 2
    /\ ToolCalls = 2
    /\ answer = ResponseText(2)

\* C9: an LLM request carries tool definitions, and then exactly the supplied
\* ones together with the tool choice "auto", if and only if it is a round
\* request of a query that was given both tools and a dispatcher; the final
\* request after the last tool round and the request after the loop carry
\* neither.
C9_ToolsOnlyInRoundRequests ==
    \A i \in 1..Len(events) :
        events[i].kind = "llm" =>
            LET carries == events[i].params.tools # <<>>
            IN /\ carries <=> (/\ events[i].site = "round"
                               /\ Len(tools) > 0
                               /\ tool_manager)
               /\ carries => events[i].params.tools = tools
               /\ carries <=> (events[i].params.tool_choice = "auto")
               /\ ~carries <=> (events[i].params.tool_choice = "absent")

\* a query whose round requests carried the tools and whose final request,
\* made after MaxRounds tool rounds, did not
C9_Witness ==
    /\ pc = "done"
    /\ LLMCalls = MaxRounds + 1
    /\ events[1].params.tools = ToolDefinitions
    /\ events[1].params.tool_choice = "auto"
    /\ events[Len(events)].site = "final"
    /\ events[Len(events)].params.tools = <<>>

\* the position of the LLM request that the event at position p follows, with
\* only dispatches in between; 0 if there is none
PrevLLM(p) ==
    LET qs == {q \in 1..(p - 1) :
                  /\ events[q].kind = "llm"
                  /\ \A r \in (q + 1)..(p - 1) : events[r].kind = "tool"}
    IN IF qs = {} THEN 0 ELSE CHOOSE q \in qs : TRUE

\* C10: dispatches are made one after the other in the order of the tool_use
\* blocks of the response they belong to: the k-th event after a round's
\* request is the dispatch of the k-th tool_use block of its response, made
\* after the dispatches before it have returned; and the next LLM request
\* comes only when every tool_use block of the round has been dispatched, so
\* all dispatches of a round precede the next round's request and dispatches.
C10_SequentialDispatch ==
    \A p \in 1..Len(events) :
        LET q == PrevLLM(p)
        IN /\ events[p].kind = "tool" =>
                /\ q >= 1
                /\ events[q].site = "round"
                /\ TriggersToolUse(events[q])
                /\ events[p].round = events[q].round
                /\ p - q <= Len(events[q].tool_use_ids)
                /\ events[p].id = events[q].tool_use_ids[p - q]
                /\ \A r \in (q + 1)..(p - 1) : events[r].ok
           /\ (events[p].kind = "llm" /\ p > 1) =>
                /\ q >= 1
                /\ events[q].site = "round"
                /\ TriggersToolUse(events[q])
                /\ p - q - 1 = Len(events[q].tool_use_ids)
                /\ \A r \in (q + 1)..(p - 1) : events[r].ok
                /\ events[p].site = "round" => events[p].round = events[q].round + 1

\* two rounds of two tool calls each, dispatched in block order
C10_Witness ==
    /\ Len(RoundEvents) >= 2
    /\ Len(RoundEvents[1].tool_use_ids) = 2
    /\ Len(RoundEvents[2].tool_use_ids) = 2
    /\ DispatchedIds = RoundEvents[1].tool_use_ids \o RoundEvents[2].tool_use_ids

\* the texts by which a tool reports that it found nothing or that its provider
\* failed
FailureTexts == {NoRelevantContent, ProviderErrorText, OutlineNotFound}

\* the position of the first LLM request after position p, 0 if there is none
NextLLM(p) ==
    LET qs == {q \in (p + 1)..Len(events) : events[q].kind = "llm"}
    IN IF qs = {} THEN 0 ELSE CHOOSE q \in qs : \A r \in qs : q <= r

\* the tool_result blocks of the message log msgs
ResultBlocks(msgs) ==
    UNION {{msgs[m].content[j] : j \in 1..Len(msgs[m].content)} :
              m \in {k \in 2..Len(msgs) : msgs[k].role = "user"}}

\* C11: a dispatch that returns text, whatever the text says, never ends the
\* query: once the query has ended, every returned dispatch was followed by a
\* raising dispatch of the same round or by an LLM request, and that request
\* carried the text in a tool_result block without is_error, under the id of
\* its tool_use block; an answer "Tool execution failed" comes from a dispatch
\* that raised only.
C11_ReturnedTextContinues ==
    /\ \A p \in 1..Len(events) :
          (events[p].kind = "tool" /\ events[p].ok) =>
              LET q == NextLLM(p)
              IN /\ Terminated =>
                       \/ q > 0
                       \/ \E r \in (p + 1)..Len(events) :
                              events[r].kind = "tool" /\ ~events[r].ok
                 /\ q > 0 =>
                       [type |-> "tool_result", tool_use_id |-> events[p].id,
                        content |-> events[p].text]
                           \in ResultBlocks(events[q].params.messages)
    /\ (pc = "done" /\ reason = "tool_error") =>
          (events[Len(events)].kind = "tool" /\ ~events[Len(events)].ok)
    /\ \A b \in ResultBlocks(messages) : DOMAIN b = {"type", "tool_use_id", "content"}

\* a provider error text and a "not found" text were returned in the first
\* round, and the second round's response is the answer
C11_Witness ==
    /\ pc = "done"
    /\ Len(ToolEvents) = 2
    /\ ToolEvents[1].ok /\ ToolEvents[1].text = ProviderErrorText
    /\ ToolEvents[2].ok /\ ToolEvents[2].text = OutlineNotFound
    /\ LLMCalls = 2
    /\ answer = ResponseText(2)
\* the query was given no tools and has made one LLM request, without tool
\* definitions, and no dispatch; if it has ended with an answer, the answer is
\* that response's text; the citation list is empty
OneRequestNoDispatch ==
    /\ LLMCalls <= 1
    /\ ToolCalls = 0
    /\ \A i \in 1..Len(events) :
          events[i].params.tools = <<>> /\ events[i].params.tool_choice = "absent"
    /\ Terminated => LLMCalls = 1
    /\ (pc = "done" /\ events[1].ok) => answer = ResponseText(1)
    /\ last_sources = <<>>

\* C12: a query that was given no tools makes exactly one LLM request, without
\* tool definitions, never invokes the dispatcher, answers with the model's
\* text and leaves the citation list empty, whether or not a dispatcher was
\* given and whatever the response says.
C12_NoToolsSingleRequest ==
    (pc # "idle" /\ max_rounds >= 1 /\ tools = <<>>) => OneRequestNoDispatch

\* the part of C12 the code keeps: without tools and without a dispatcher
C12_WithoutDispatcher ==
    (pc # "idle" /\ max_rounds >= 1 /\ tools = <<>> /\ ~tool_manager)
        => OneRequestNoDispatch
\* the last thing the query did
LastEvent == events[Len(events)]

\* the answer is a transport-error text, the generic tool-failure string or the
\* text of the final or post-loop request's response, each after the event
\* that produces it
AnswerOfFailureOrFinal ==
    \/ /\ LastEvent.kind = "llm" /\ LastEvent.site = "round" /\ ~LastEvent.ok
       /\ answer = ErrorGeneratingResponse \o ApiErrorText
    \/ /\ LastEvent.kind = "tool" /\ ~LastEvent.ok
       /\ answer = ToolExecutionFailed
    \/ /\ LastEvent.kind = "llm" /\ LastEvent.site \in {"final", "fallback"}
       /\ LastEvent.ok /\ LastEvent.first_type = "text"
       /\ LastEvent.params.tools = <<>>
       /\ answer = ResponseText(LLMCalls)

\* the answer is neither the placeholder of a round that continues nor taken
\* from a response that triggered tool use
NoToolCallArtifact ==
    /\ answer # EmptyPlaceholder
    /\ answer # NoAnswer
    /\ \A i \in 1..Len(LLMEvents) :
          (LLMEvents[i].site = "round" /\ TriggersToolUse(LLMEvents[i]))
              => answer # ResponseText(i)

SourceWrites ==
    {p \in 1..Len(events) :
        \/ events[p].kind = "reset"
        \/ events[p].kind = "tool" /\ events[p].ok /\ events[p].search}

\* the passages the provider matched for the search recorded at position p
MatchedAt(p) ==
    ProviderResult(events[p].store, query_no,
                   [id |-> events[p].id, input |-> events[p].input])

\* C14: after any sequence of executions the citation list is the one of the
\* most recent search execution: one citation per passage that search matched,
\* in the provider's order, and nothing else; it is empty when that search
\* matched nothing (or when nothing was searched since the list was reset);
\* executions of the outline tool and failed lookups in between leave it alone.
C14_CitationsOfLastSearch ==
    IF SourceWrites = {} THEN last_sources = <<>>
    ELSE LET p == CHOOSE w \in SourceWrites : \A v \in SourceWrites : v <= w
         IN IF events[p].kind = "reset" THEN last_sources = <<>>
            ELSE /\ Len(last_sources) = Len(MatchedAt(p).documents)
                 /\ \A k \in 1..Len(last_sources) :
                       /\ last_sources[k].text =
                              MatchedAt(p).metadata[k].course_title \o " - Lesson "
                                  \o ToString(MatchedAt(p).metadata[k].lesson_number)
                       /\ last_sources[k].link =
                              IF k \in DOMAIN MatchedAt(p).lesson_links
                              THEN MatchedAt(p).lesson_links[k] ELSE "None"
                 /\ \A w \in SourceWrites \ {p} :
                       events[w].kind = "tool" =>
                           \A k \in 1..Len(events[w].sources) :
                               \A j \in 1..Len(last_sources) :
                                   last_sources[j] # events[w].sources[k]

\* a search that matched MaxPassages passages, an outline call, then a search
\* that matched nothing: the list is empty
C14_Witness ==
    /\ Len(events) = 3
    /\ events[1].kind = "tool" /\ events[1].search
    /\ Len(events[1].sources) = MaxPassages
    /\ events[2].kind = "tool" /\ events[2].ok /\ ~events[2].search
    /\ events[3].kind = "tool" /\ events[3].search
    /\ events[3].text = NoRelevantContent
    /\ last_sources = <<>>
\* the executions of the search tool that returned, in this query, in order
SearchEvents == SelectSeq(ToolEvents, LAMBDA e : e.ok /\ e.search)

\* the citations the searches of this query leave behind: those of the last
\* one, none if there was no search
CitationsOfQuery ==
    IF SearchEvents = <<>> THEN <<>> ELSE SearchEvents[Len(SearchEvents)].sources

\* C15: when queries are served one after another and the citations were read
\* and cleared after each earlier one, the citations returned with a query's
\* answer are those its own last search produced, and none if it executed no
\* search.
C15_CitationsMatchQuery ==
    (pc = "returned" /\ drained) =>
        /\ returned = CitationsOfQuery
        /\ SearchEvents = <<>> => returned = <<>>
        /\ last_sources = <<>>

\* the second query has returned the citations of its second search, after a
\* first search in the same query and a first query before it
C15_Witness ==
    /\ pc = "returned"
    /\ drained
    /\ query_no = 2
    /\ Len(SearchEvents) = 2
    /\ returned # <<>>
    /\ returned = SearchEvents[2].sources
    /\ SearchEvents[1].sources # <<>>
\* query q has handed its caller citations that are not those of its own last
\* search: another query's, or none although its own search matched passages
CrossTalk(q) ==
    /\ inflight[q].pc \in {"read", "done"}
    /\ inflight[q].got # inflight[q].own

\* C16: with two queries on one shared registry citation cross-talk is
\* reachable (C16_Witness), and it comes from the overlap only: a query hands
\* back citations other than those of its own last search only if the other
\* query was in flight at some time between its start and its read.
C16_CrossTalkOnlyByOverlap ==
    \A q \in Queries : CrossTalk(q) => inflight[q].overlapped

\* both kinds of cross-talk at once: query 1 has returned the citations of
\* query 2's search instead of its own, and query 2 has returned none although
\* its search matched passages
C16_Witness ==
    /\ inflight[1].pc = "done" /\ inflight[2].pc = "done"
    /\ inflight[1].own # <<>> /\ inflight[2].own # <<>>
    /\ inflight[1].got = inflight[2].own
    /\ inflight[1].got # inflight[1].own
    /\ inflight[2].got = <<>>
\* the log of call q
LogOf(q) == heap[calls[q].messages]

\* the tool rounds whose results are in the log of call q
ResultsIn(q) == Len(SelectSeq(LogOf(q), LAMBDA msg : msg.kind = "tool_result"))

\* the log of call q is its own query followed by its own tool exchanges, round
\* by round
OwnLog(q) ==
    /\ LogOf(q)[1] = UserMessage(q)
    /\ \A i \in 2..Len(LogOf(q)) :
          LogOf(q)[i] = IF i % 2 = 0 THEN AssistantMessage(q, i \div 2)
                                     ELSE ToolResultsMessage(q, i \div 2)

\* C17: in every interleaving of two calls of one engine instance each call's
\* message log holds only its own query and its own tool exchanges, the two
\* logs are different objects, each call's round_count counts its own tool
\* rounds only, and the engine's base_params stay as they were constructed.
C17_ContextExclusive ==
    /\ DOMAIN heap[EngineParams] = DOMAIN BaseParams
    /\ \A k \in DOMAIN BaseParams : heap[EngineParams][k] = BaseParams[k]
    /\ \A q \in Queries :
          calls[q].pc # "idle" =>
              /\ OwnLog(q)
              /\ calls[q].messages # calls[Other(q)].messages
              /\ calls[q].base_params # EngineParams
              /\ calls[q].round_count <= ResultsIn(q)
              /\ ResultsIn(q) <= calls[q].round_count + 1

\* both calls are in the middle of a tool round, one in its second and one in
\* its first, each with its own exchanges in its log
C17_Witness ==
    /\ calls[1].pc = "tools" /\ calls[2].pc = "tools"
    /\ calls[1].round_count = 1 /\ calls[2].round_count = 0
    /\ Len(LogOf(1)) = 4 /\ Len(LogOf(2)) = 2
\* C18: on every path by which a query ends the citations have been read and
\* cleared, so the citations returned with an answer are never those of an
\* earlier query: when a query has ended the citation list is empty, and what a
\* query returns is what its own last search produced.
C18_DrainedOnEveryPath ==
    /\ pc \in {"returned", "raised"} => last_sources = <<>>
    /\ pc = "returned" => returned = CitationsOfQuery
\* the dispatches of tool calls whose name the registry does not hold
UnknownDispatches ==
    {i \in 1..Len(events) : events[i].kind = "tool"
                            /\ events[i].name \notin RegisteredNames(registry)}

LastRegistration(name) ==
    CHOOSE k \in 1..Len(registered) :
        /\ registered[k].name = name
        /\ \A j \in (k + 1)..Len(registered) : registered[j].name # name

\* C20: after any sequence of register calls no two entries of the registry
\* have the same name, the names held are exactly the names registered, and
\* the entry under each name is the tool of the latest register call under that
\* name, so a duplicate registration replaces one entry and leaves the entries
\* under the other names as they were.
C20_LastWriteWins ==
    /\ \A i, j \in 1..Len(registry) : registry[i].name = registry[j].name => i = j
    /\ RegisteredNames(registry) = RegisteredNames(registered)
    /\ \A i \in 1..Len(registry) :
          registry[i] = registered[LastRegistration(registry[i].name)]

\* three register calls, the third under the name of the first: the registry
\* holds the third and the second tool
C20_Witness ==
    /\ Len(registered) = 3
    /\ registered[1].name = registered[3].name
    /\ registered[2].name # registered[1].name
    /\ registry = <<registered[3], registered[2]>>
\* the names of a sequence of tools, each once, in the order in which they
\* first occur
RECURSIVE FirstNames(_)
FirstNames(ts) ==
    IF ts = <<>> THEN <<>>
    ELSE LET before == FirstNames(SubSeq(ts, 1, Len(ts) - 1))
             name == ts[Len(ts)].name
         IN IF \E i \in 1..Len(before) : before[i] = name THEN before
            ELSE Append(before, name)

\* the registry after register has been called with each tool of ts in turn
RECURSIVE RegisterAll(_)
RegisterAll(ts) ==
    IF ts = <<>> THEN <<>>
    ELSE Register(RegisterAll(SubSeq(ts, 1, Len(ts) - 1)), ts[Len(ts)])

\* every sequence of up to three register calls under the two tool names
RegisterSequences ==
    {[i \in 1..Len(ns) |-> Tool(ns[i], i)] :
        ns \in SeqsUpTo({ToolDefinitions[i] : i \in 1..Len(ToolDefinitions)}, 3)}

\* C21: definitions() is the sequence of the registered names, each once, in
\* the order of their first registration (for every sequence of register
\* calls, and for the registry the queries run on), and that sequence is what
\* the caller passes to the engine and what every round request carries as its
\* tools.
C21_DefinitionsPassedInOrder ==
    /\ \A ts \in RegisterSequences : Definitions(RegisterAll(ts)) = FirstNames(ts)
    /\ Definitions(registry) = FirstNames(registered)
    /\ pc # "idle" => tools = Definitions(registry)
    /\ \A i \in 1..Len(RoundEvents) :
          RoundEvents[i].params.tools = Definitions(registry)

\* the second round request of a query has been sent with the two definitions
\* in registration order
C21_Witness ==
    /\ Len(RoundEvents) = 2
    /\ RoundEvents[2].params.tools = <<"search_course_content", "get_course_outline">>
    /\ Len(registered) = 2
    /\ registered[1].name = "search_course_content"
\* the execution recorded at position p is one of the content-search tool
SearchRan(p) ==
    /\ events[p].kind = "tool"
    /\ events[p].name = SearchToolName
    /\ events[p].text # UnknownToolText

SearchesRun == {p \in 1..Len(events) : SearchRan(p)}

\* C22: when the provider reports an error the content-search tool returns,
\* with the provider's error text as its result, also though the erroring
\* result has no documents: the result is the error text and not the
\* zero-matches sentinel.
C22_ProviderErrorVerbatim ==
    \A p \in SearchesRun :
        MatchedAt(p).error # NoError =>
            /\ events[p].ok
            /\ events[p].text = MatchedAt(p).error
            /\ MatchedAt(p).documents = <<>> => events[p].text # NoRelevantContent

\* a search has returned the provider's error text for a result without
\* documents, and the registry has executed another call after it
C22_Witness ==
    \E p \in SearchesRun :
        /\ MatchedAt(p).error = ProviderErrorText
        /\ MatchedAt(p).documents = <<>>
        /\ events[p].text = "Vector store connection failed"
        /\ p < Len(events)

\* C23: with zero matches and no error the content-search tool returns the
\* sentinel "No relevant content found", and whatever the provider reports
\* (an error, zero matches, some matches) its result is a non-empty text.
C23_SentinelNeverEmpty ==
    \A p \in SearchesRun :
        /\ (MatchedAt(p).error = NoError /\ MatchedAt(p).documents = <<>>) =>
               events[p].text = "No relevant content found"
        /\ events[p].ok
        /\ events[p].text # ""

\* the search tool has run on all three kinds of provider result
C23_Witness ==
    /\ \E p \in SearchesRun : MatchedAt(p).error # NoError
    /\ \E p \in SearchesRun :
          /\ MatchedAt(p).error = NoError /\ MatchedAt(p).documents = <<>>
          /\ events[p].text = NoRelevantContent
    /\ \E p \in SearchesRun : MatchedAt(p).documents # <<>>

\* the citations the spec asks for the matched passages of a provider result
ExpectedCitations(res) ==
    [k \in 1..Len(res.documents) |->
        [text |-> res.metadata[k].course_title \o " - Lesson "
                      \o ToString(res.metadata[k].lesson_number),
         link |-> IF res.metadata[k].lesson_number \in DOMAIN res.lesson_links
                  THEN res.lesson_links[res.metadata[k].lesson_number] ELSE "None"]]

C25_DefaultRoundLimit ==
    [][GenerateResponse <=> (GenerateResponseWithRounds /\ max_rounds' = 2)]_vars

\* the run of tests/test_ai_generator.py:272-345: two tool rounds, then the
\* final request, whose text is the answer
C25_Witness ==
    /\ pc = "done"
    /\ max_rounds = 2
    /\ ToolsAvailable(tools, tool_manager)
    /\ LLMCalls = 3
    /\ Len(RoundEvents) = 2
    /\ Len(ToolEvents) >= 2
    /\ AllToolsSucceeded
    /\ answer = ResponseText(3)
\* the parameter dictionaries of the requests call q has made so far
RequestsOf(q) == {Ref(q, "api_params"), Ref(q, "final_params")} \cap DOMAIN heap

\* the system prompt the history of call q asks for
PromptOf(q) ==
    IF calls[q].history = "None" \/ calls[q].history = ""
    THEN SystemPrompt
    ELSE SystemPrompt \o "\n\nPrevious conversation:\n" \o calls[q].history

\* C26: the system prompt of a call is the fixed instruction block, followed by
\* the history under "Previous conversation:" exactly when a non-empty history
\* was passed; it stays what it was at the start of the call, and every request
\* of the call, round or final, carries it together with the engine's model,
\* temperature 0 and max_tokens 800.
C26_SameSystemPrompt ==
    \A q \in Queries :
        calls[q].pc # "idle" =>
            /\ heap[calls[q].base_params]["system"] = PromptOf(q)
            /\ \A o \in RequestsOf(q) :
                  /\ heap[o]["system"] = PromptOf(q)
                  /\ heap[o]["model"] = "model"
                  /\ heap[o]["temperature"] = "0"
                  /\ heap[o]["max_tokens"] = "800"

\* call 1, made with a history, has sent round requests and the final request;
\* call 2, made with an empty history, has sent a round request
C26_Witness ==
    /\ calls[1].history = "User: hello"
    /\ calls[1].pc = "done"
    /\ RequestsOf(1) = {Ref(1, "api_params"), Ref(1, "final_params")}
    /\ heap[Ref(1, "final_params")]["system"] # SystemPrompt
    /\ calls[2].history = ""
    /\ calls[2].pc = "tools"
    /\ heap[Ref(2, "api_params")]["system"] = SystemPrompt
\* the ids the blocks of a tool-results message carry, in order
ResultIds(msg) == [k \in 1..Len(msg.content) |-> msg.content[k].tool_use_id]

\* in the log every assistant message with tool_use blocks is followed at once
\* by a user message whose blocks are tool_result blocks with the same ids in
\* the same order, and every user message after the query is such an answer to
\* the assistant message before it
ToolUsesAnswered(log) ==
    /\ \A i \in 1..Len(log) :
          (log[i].role = "assistant" /\ ToolUseIds(log[i].content) # <<>>) =>
              /\ i < Len(log)
              /\ log[i + 1].role = "user"
              /\ ResultIds(log[i + 1]) = ToolUseIds(log[i].content)
    /\ \A j \in 2..Len(log) :
          log[j].role = "user" =>
              /\ log[j - 1].role = "assistant"
              /\ \A k \in 1..Len(log[j].content) : log[j].content[k].type = "tool_result"
              /\ ResultIds(log[j]) = ToolUseIds(log[j - 1].content)
    /\ \A i, j \in 2..Len(log) :
          (log[i].role = "user" /\ log[j].role = "user" /\ i # j) =>
              \A k \in 1..Len(log[i].content), l \in 1..Len(log[j].content) :
                  log[i].content[k].tool_use_id # log[j].content[l].tool_use_id

\* C27: in the message log of every LLM request each tool_use block is
\* answered by exactly one tool_result block with its id, the results of a
\* round are together in the one user message right after the assistant
\* message, in the order of the tool_use blocks, and no tool_result block
\* carries an id that does not occur before it.
C27_ToolResultsPaired ==
    \A i \in 1..Len(LLMEvents) : ToolUsesAnswered(LLMEvents[i].params.messages)

\* the final request after two tool rounds, the first with two tool calls
C27_Witness ==
    /\ LLMCalls = 3
    /\ Len(LLMEvents[3].params.messages) = 5
    /\ Len(ToolUseIds(LLMEvents[3].params.messages[2].content)) = 2
    /\ Len(LLMEvents[3].params.messages[3].content) = 2
    /\ LLMEvents[3].params.messages[5].content[1].tool_use_id = ToolUseId(2, 1)
\* C28: the message log is append-only: every step leaves the log it found as
\* a prefix of the log it leaves, so no message is changed or removed, and the
\* first message of a query's log is always the user message with the query.
C28_LogAppendOnly ==
    [][/\ IsPrefix(messages, messages')
       /\ pc' # "idle" => messages'[1] = [role |-> "user", content |-> Query]]_vars

\* two tool rounds have appended four messages after the query
C28_Witness ==
    /\ Len(messages) = 5
    /\ messages[1] = [role |-> "user", content |-> Query]
    /\ messages[2].role = "assistant" /\ messages[4].role = "assistant"
    /\ messages[3].role = "user" /\ messages[5].role = "user"
\* the value round_count had when the round that produced the answer began
RoundCountOfLastRound ==
    IF RoundEvents = <<>> THEN 0 ELSE RoundEvents[Len(RoundEvents)].round

\* C29 as stated: an answer that is not the text of a response without tool
\* use is returned with round_count incremented past the value it had in the
\* round that produced the answer.
C29_Original ==
    (pc = "done" /\ reason # "no_tool_use") => round_count > RoundCountOfLastRound

\* C29: no path that yields an answer increments round_count in the round that
\* produced it, be it the text of a response without tool use, the transport
\* error, the tool failure or the final request; round_count is incremented
\* only when the loop goes on to another round, so at the end it is the number
\* of round requests less one, and below max_rounds.
C29_AnswerLeavesRoundCount ==
    (pc = "done" /\ RoundEvents # <<>>) =>
        /\ round_count = RoundCountOfLastRound
        /\ round_count = Len(RoundEvents) - 1
        /\ round_count < max_rounds

\* the final request after the second of two tool rounds has given the answer,
\* and round_count is still 1
C29_Witness ==
    /\ pc = "done"
    /\ reason = "max_rounds_reached"
    /\ LastEvent.kind = "llm" /\ LastEvent.site = "final"
    /\ Len(RoundEvents) = 2
    /\ round_count = 1
    /\ answer = ResponseText(3)
\* a step in which a tool round completes: all its tool calls have returned and
\* the engine has decided what comes next
RoundCompletes ==
    /\ pc \in {"round", "tools"}
    /\ pc' \in {"final", "round", "fallback"}

\* C30: when a tool round completes without both tools and dispatcher the
\* engine goes to the final request, rounds remaining or not, and leaves
\* round_count alone; with both and with rounds remaining it increments
\* round_count by one and starts the next round. The final request carries no
\* tool definitions, nothing follows it, and the text it returns is the answer.
C30_StopsWithoutTools ==
    /\ [][RoundCompletes =>
            IF ~(Len(tools) > 0 /\ tool_manager)
            THEN pc' = "final" /\ round_count' = round_count
            ELSE round_count < max_rounds - 1 =>
                     pc' = "round" /\ round_count' = round_count + 1]_vars
    /\ [][pc = "final" =>
            /\ LastEvent'.kind = "llm" /\ LastEvent'.site = "final"
            /\ LastEvent'.params.tools = <<>>
            /\ LastEvent'.params.tool_choice = "absent"
            /\ pc' \in {"done", "raised"}
            /\ pc' = "done" /\ LastEvent'.ok => answer' = ResponseText(LLMCalls')]_vars

\* with a dispatcher and no tools, a tool round in the first of two rounds was
\* followed by the final request, whose text is the answer
C30_Witness ==
    /\ pc = "done"
    /\ tools = <<>> /\ tool_manager
    /\ max_rounds = 2 /\ round_count = 0
    /\ reason = "no_tools_available"
    /\ LLMCalls = 2
    /\ ToolEvents # <<>> /\ AllToolsSucceeded
    /\ LastEvent.site = "final"
    /\ answer = ResponseText(2)
\* the ids of the tool_use blocks dispatched in the round that is under way or
\* was the last
DispatchedInLastRound ==
    {ToolEvents[i].id : i \in {j \in 1..Len(ToolEvents) : ToolEvents[j].round = round_count}}

\* C31: when the query has ended because a tool call failed, the last message
\* of its log is a user message of tool_result blocks that answers every
\* tool_use block dispatched in that round: the failing call by a block with
\* its id, marked as an error and carrying the failure's description, the
\* calls before it by their results.
C31_FailureAnsweredInLog ==
    (pc = "done" /\ reason = "tool_error") =>
        /\ Len(messages) > 2
        /\ messages[Len(messages)].role = "user"
        /\ {messages[Len(messages)].content[k].tool_use_id :
               k \in 1..Len(messages[Len(messages)].content)} = DispatchedInLastRound
        /\ \E k \in 1..Len(messages[Len(messages)].content) :
              messages[Len(messages)].content[k] =
                  [type |-> "tool_result", tool_use_id |-> LastEvent.id,
                   content |-> "Tool execution failed: " \o LastEvent.text,
                   is_error |-> TRUE]
\* C32: the roles in the message log alternate user, assistant, user, ...,
\* starting with the user query, in every state, and the log every LLM request
\* was sent with ends with a user message, whatever the responses were.
C32_RolesAlternate ==
    /\ \A i \in 1..Len(messages) :
          messages[i].role = IF i % 2 = 1 THEN "user" ELSE "assistant"
    /\ \A i \in 1..Len(LLMEvents) :
          LLMEvents[i].params.messages[Len(LLMEvents[i].params.messages)].role = "user"
\* the post-loop request of lines 121-127 has been made or is about to be
FallbackTaken ==
    \/ pc = "fallback"
    \/ \E i \in 1..Len(LLMEvents) : LLMEvents[i].site = "fallback"

\* C33: with max_rounds >= 1 round_count stays within 0..max_rounds - 1 and
\* the post-loop request is never made; with max_rounds <= 0 the call goes
\* straight to the post-loop request: one LLM request, without tool
\* definitions, no round request and no dispatch.
C33_FallbackOnlyWithoutRounds ==
    pc # "idle" =>
        /\ max_rounds >= 1 =>
              /\ 0 <= round_count /\ round_count <= max_rounds - 1
              /\ ~FallbackTaken
        /\ max_rounds <= 0 =>
              /\ FallbackTaken
              /\ round_count = 0
              /\ ToolEvents = <<>>
              /\ RoundEvents = <<>>
              /\ LLMCalls = IF pc = "fallback" THEN 0 ELSE 1
              /\ \A i \in 1..Len(LLMEvents) :
                    /\ LLMEvents[i].site = "fallback"
                    /\ LLMEvents[i].params.tools = <<>>
                    /\ LLMEvents[i].params.tool_choice = "absent"

\* a call with a negative round limit, with tools and a dispatcher, has
\* answered from the post-loop request
C33_Witness ==
    /\ pc = "done"
    /\ max_rounds = -1
    /\ Len(tools) > 0 /\ tool_manager
    /\ LLMCalls = 1
    /\ LastEvent.site = "fallback"
    /\ answer = ResponseText(1)
\* the position in events of the latest LLM request before position p, 0 if
\* there is none
RequestBefore(p) ==
    LET qs == {q \in 1..(p - 1) : events[q].kind = "llm"}
    IN IF qs = {} THEN 0 ELSE CHOOSE q \in qs : \A r \in qs : r <= q

\* C34: every dispatch is for a tool_use block of the latest response, which
\* came from a round request with stop reason tool_use, and a dispatcher was
\* supplied; after a response with another stop reason nothing is dispatched,
\* whatever blocks it holds; without a dispatcher the first response, tool_use
\* or not, ends the query after that one request with the log as it was.
C34_DispatchOnlyOnToolUse ==
    /\ \A p \in 1..Len(events) :
          events[p].kind = "tool" =>
              /\ tool_manager
              /\ RequestBefore(p) # 0
              /\ events[RequestBefore(p)].site = "round"
              /\ events[RequestBefore(p)].ok
              /\ events[RequestBefore(p)].stop_reason = "tool_use"
              /\ \E k \in 1..Len(events[RequestBefore(p)].tool_use_ids) :
                    events[RequestBefore(p)].tool_use_ids[k] = events[p].id
    /\ \A p \in 1..Len(events) :
          (events[p].kind = "llm" /\ events[p].ok /\ events[p].stop_reason # "tool_use") =>
              /\ p = Len(events)
              /\ Terminated
    /\ (~tool_manager /\ events # <<>>) =>
          /\ Len(events) = 1
          /\ Terminated
          /\ messages = <<[role |-> "user", content |-> Query]>>

\* without a dispatcher a tool_use response that leads with a text and holds a
\* tool_use block has ended the query after the one request: nothing was
\* dispatched or appended, the leading text is the answer
C34_Witness ==
    /\ ~tool_manager
    /\ max_rounds = 2
    /\ pc = "done"
    /\ Len(events) = 1
    /\ events[1].stop_reason = "tool_use"
    /\ events[1].tool_use_ids # <<>>
    /\ Len(messages) = 1
    /\ answer = ResponseText(1)
\* the event at position p ends the query: a request that failed, a response
\* that is not taken as tool use, the response of a request made without
\* tools after the rounds, or a dispatch that failed
Answering(p) ==
    LET e == events[p]
    IN IF e.kind = "llm"
       THEN ~e.ok \/ e.site # "round" \/ e.stop_reason # "tool_use" \/ ~tool_manager
       ELSE ~e.ok

\* the events between the latest request before position p and p are the
\* dispatches of all tool_use blocks of that request's response, in order,
\* and every one of them returned
ToolPhaseBefore(p) ==
    LET q == RequestBefore(p)
    IN /\ q # 0
       /\ events[q].site = "round"
       /\ events[q].ok
       /\ events[q].stop_reason = "tool_use"
       /\ tool_manager
       /\ p - q - 1 = Len(events[q].tool_use_ids)
       /\ \A k \in 1..(p - q - 1) :
             /\ events[q + k].kind = "tool"
             /\ events[q + k].id = events[q].tool_use_ids[k]
             /\ events[q + k].ok

\* C35: the engine alternates between awaiting the model and executing tools
\* until it terminates: every request but the first comes right after the
\* tool phase of the response before it, in which every tool_use block was
\* dispatched and every dispatch returned; the first event is a request; and
\* the event that produces the answer (or the exception) is the last one, no
\* request and no dispatch follows it.
C35_ProtocolOrder ==
    /\ events # <<>> => events[1].kind = "llm"
    /\ \A p \in 2..Len(events) : events[p].kind = "llm" => ToolPhaseBefore(p)
    /\ \A p \in 1..Len(events) : Answering(p) => p = Len(events) /\ Terminated
    /\ Terminated => events # <<>> /\ Answering(Len(events))
    /\ pc = "tools" => LastEvent.kind = "tool" \/ TriggersToolUse(LastEvent)
    /\ pc \in {"round", "final", "fallback"} /\ events # <<>> =>
          ToolPhaseBefore(Len(events) + 1)

\* two tool phases lie between three requests: both round responses asked
\* for tools, every dispatch returned, and the final request's text is the
\* answer
C35_Witness ==
    /\ pc = "done"
    /\ LLMCalls = 3
    /\ ToolCalls >= 3
    /\ AllToolsSucceeded
    /\ LastEvent.kind = "llm" /\ LastEvent.site = "final" /\ LastEvent.ok
    /\ answer = ResponseText(3)
\* the tool_use blocks of the response the helper was given, in order
HelperToolUses == SelectSeq(response, LAMBDA b : b.type = "tool_use")

\* every dispatch of the helper returned
HelperToolsSucceeded ==
    \A k \in 1..Len(legacy.dispatched) : legacy.dispatched[k].ok

\* the helper's request got the response the engine's final request got
SameFinalResponse ==
    /\ legacy.requests[1].ok = LastEvent.ok
    /\ legacy.requests[1].stop_reason = LastEvent.stop_reason
    /\ legacy.requests[1].tool_use_ids = LastEvent.tool_use_ids
    /\ legacy.requests[1].first_type = LastEvent.first_type

\* C36: given the tool-use response of the engine's single round and the
\* log the round started from, and with every dispatch returning, the helper
\* ends as the engine with max_rounds = 1 does: it dispatches the tool_use
\* blocks in order, as the engine did; its log is the engine's, the query, the
\* assistant's tool-use message and one message with all results; it makes
\* one request, with that log and without tools, as the engine's final
\* request; and on the same response it returns the same text or raises the
\* same exception. The caller's message list is never changed by the helper.
C36_HelperMatchesSingleRound ==
    /\ legacy.pc # "idle" =>
          heap[CallerMessages] = <<[role |-> "user", content |-> Query]>>
    /\ (legacy.pc \in {"done", "raised"} /\ HelperToolsSucceeded /\ AllToolsSucceeded) =>
          /\ Len(legacy.dispatched) = Len(HelperToolUses)
          /\ Len(ToolEvents) = Len(HelperToolUses)
          /\ \A k \in 1..Len(HelperToolUses) :
                /\ legacy.dispatched[k].id = HelperToolUses[k].id
                /\ legacy.dispatched[k].name = HelperToolUses[k].name
                /\ legacy.dispatched[k].input = HelperToolUses[k].input
                /\ ToolEvents[k].id = legacy.dispatched[k].id
                /\ ToolEvents[k].name = legacy.dispatched[k].name
                /\ ToolEvents[k].input = legacy.dispatched[k].input
          /\ heap[legacy.messages] = messages
          /\ Len(HelperToolUses) > 0 =>
                /\ Len(heap[legacy.messages]) = 3
                /\ heap[legacy.messages][2] = [role |-> "assistant", content |-> response]
                /\ heap[legacy.messages][3].role = "user"
                /\ Len(heap[legacy.messages][3].content) = Len(HelperToolUses)
                /\ \A k \in 1..Len(HelperToolUses) :
                      heap[legacy.messages][3].content[k] =
                          [type |-> "tool_result", tool_use_id |-> HelperToolUses[k].id,
                           content |-> ToolEvents[k].text]
          /\ Len(legacy.requests) = 1
          /\ legacy.requests[1].params.messages = heap[legacy.messages]
          /\ legacy.requests[1].params.tools = <<>>
          /\ legacy.requests[1].params.tool_choice = "absent"
          /\ LLMCalls = 2
          /\ LastEvent.kind = "llm" /\ LastEvent.site = "final"
          /\ LastEvent.params = legacy.requests[1].params
          /\ SameFinalResponse =>
                /\ legacy.pc = pc
                /\ legacy.answer = answer
                /\ legacy.exception = exception
          /\ legacy.pc = "done" => legacy.answer = ResponseText(2)

\* the helper and the engine have both dispatched the two tool_use blocks of
\* the response and returned the text of the same second response; the
\* helper's list holds three messages and the caller's still only the query
C36_Witness ==
    /\ legacy.pc = "done"
    /\ pc = "done"
    /\ Len(legacy.dispatched) = 2
    /\ HelperToolsSucceeded /\ AllToolsSucceeded
    /\ SameFinalResponse
    /\ legacy.answer = answer /\ answer = ResponseText(2)
    /\ Len(heap[legacy.messages]) = 3
    /\ Len(heap[CallerMessages]) = 1
====
